---- MODULE Spec2Model ----
(***************************************************************************)
(* Model of the two report scripts of github-api-clients:                  *)
(*   src/graal_report.py      (cursor-paginated fetch, result cache,       *)
(*                             three reports, scripted run)                *)
(*   src/unassigned_issues.py (cursor-paginated fetch, one report)         *)
(*                                                                         *)
(* Python values are modelled as follows: a dict is a function, a list is  *)
(* a sequence, a str is a string and None is the empty tuple; a value     *)
(* that is either a str or None (a cursor) is <<s>> or the empty tuple.    *)
(***************************************************************************)
EXTENDS Integers, Sequences, FiniteSets, TLC

VARIABLES
    prog,             \* the script whose get_nodes is (or was last) running
    pc,               \* "idle" | "loop": position of get_nodes
    _cached_results,  \* graal_report._cached_results
    node_type,        \* get_nodes argument
    node_info,        \* get_nodes argument (graal_report only)
    states,           \* get_nodes argument (graal_report only)
    all_nodes,        \* get_nodes local
    endCursor,        \* get_nodes local
    queries,          \* query documents sent to the transport by this call
    pages,            \* transport responses received by this call
    cacheBefore,      \* _cached_results as it was when this call began
    storedBefore,     \* `stored` as it was when this call began
    last,             \* the finished call before this one began: how it ended
    calls,            \* number of get_nodes calls begun
    fetched,          \* (node_type, node_info) -> fetch sequences begun
    stored,           \* (node_type, node_info) -> NodeSet its fetch returned
    failed,           \* some transport answer so far was a failure
    script,           \* scripted run: "running" | "finished" | "crashed"
    report,           \* scripted run: index of the current report (1..7)
    stdout,           \* scripted run: sections printed by finished reports
    nodes,            \* report functions: the NodeSet being classified
    now,              \* report functions: datetime.datetime.now()
    out               \* report functions: None, or [printed |-> what was printed]

fetchVars  == <<prog, pc, _cached_results, node_type, node_info, states,
                all_nodes, endCursor, queries, pages, cacheBefore,
                storedBefore, last,
                calls, fetched, stored, failed>>
scriptVars == <<script, report, stdout>>
reportVars == <<nodes, now, out>>
vars       == <<fetchVars, scriptVars, reportVars>>

---------------------------------------------------------------------------
(* Python values *)

None == <<>>
Some(x) == <<x>>

Put(d, k, v) == [x \in (DOMAIN d) \cup {k} |-> IF x = k THEN v ELSE d[x]]

HasKey(d, k) == k \in DOMAIN d

---------------------------------------------------------------------------
(* Bounds *)

MaxCalls == 2       \* get_nodes calls made by the harness of Spec
MaxPages == 3       \* transport calls one fetch sequence may take
MaxNumber == 3      \* node numbers of the NodeSets given to the reports
MaxTimeline == 2    \* timeline entries of a node (the query asks for 10)
TicksPerDay == 2    \* instants of a day the model's clock tells apart

---------------------------------------------------------------------------
(* The arguments the scripts pass *)

_node_info1 == "number url title assignees timelineItems"

_node_info2 == "number author createdAt closedAt"

NodeTypes == {"issue", "pullRequest"}

NodeInfos == {_node_info1, _node_info2}

StatesArgs == {"OPEN", "[OPEN,CLOSED]"}

UINodeInfo == "number url state title assignees"

---------------------------------------------------------------------------
(* Query Builder *)

Quote(s) == "\"" \o s \o "\""

\* Python truthiness of a cursor: None and the empty str are falsy.
Truthy(cursor) == cursor # None /\ cursor[1] # ""

\* The document is modelled by the parts of the template that vary.
get_open_nodes_query(nt, ni, st, cursor) ==
    LET after == IF Truthy(cursor) THEN Quote(cursor[1]) ELSE "null"
    IN  [collection |-> nt \o "s", states |-> st, after |-> after, node |-> ni]

get_open_nodes_query_ui(nt, cursor) ==
    LET after == IF cursor # None THEN ", after: " \o Quote(cursor[1]) ELSE ""
    IN  [collection |-> nt \o "s", states |-> "OPEN", after |-> after,
         node |-> UINodeInfo]

---------------------------------------------------------------------------
(* The transport and the server behind it (external collaborators).  A      *)
(* response is [status, body]; body is the parsed JSON document.           *)

CursorTokens == {"", "Y3Vyc29yOjEwMA=="}

Drop(rec, field) == [k \in (DOMAIN rec) \ {field} |-> rec[k]]

\* The cursor a document asks the page after, as the server reads it.
RequestedAfter(q) ==
    IF q.after \in {"null", ""}
    THEN None
    ELSE Some(CHOOSE c \in CursorTokens :
                 q.after \in {Quote(c), ", after: " \o Quote(c)})

\* An ISO-8601 timestamp as the server writes it: "<year>-...T...Z".  The
\* model's calendar has 365-day years and TicksPerDay instants a day.
Iso(y, d, k) == [year |-> y, day |-> d, tick |-> k, suffix |-> "Z"]

NodeUrl(n) == <<"https://github.com/oracle/graal/issues", n>>

OracleComment(n) ==
    [updatedAt |-> Iso(2021, 300 + n, 0),
     url |-> <<NodeUrl(n), "#issuecomment">>,
     author |-> [login |-> "dev", organization |-> [login |-> "oracle"]]]

\* The node the server returns for stored item `raw` under a field selection.
ServerNode(raw, ni) ==
    IF ni = _node_info1 THEN
        [number |-> raw.number, url |-> NodeUrl(raw.number), title |-> raw.v,
         assignees |-> [totalCount |-> IF raw.v = "a" THEN 0 ELSE 1],
         timelineItems |->
            [edges |-> IF raw.v = "a" THEN <<>>
                       ELSE <<[node |-> OracleComment(raw.number)]>>]]
    ELSE IF ni = _node_info2 THEN
        [number |-> raw.number,
         author |-> IF raw.v = "a" THEN None
                    ELSE [login |-> "dev",
                          organizations |->
                             [edges |-> <<[node |-> [login |-> "oracle"]]>>]],
         createdAt |-> Iso(2020 + raw.number, 0, 0),
         closedAt |-> None]
    ELSE
        [number |-> raw.number, url |-> NodeUrl(raw.number), state |-> "OPEN",
         title |-> raw.v,
         assignees |-> [totalCount |-> IF raw.v = "a" THEN 0 ELSE 1]]

Edges(q, raws) == [i \in 1..Len(raws) |-> [node |-> ServerNode(raws[i], q.node)]]

Connection(q, raws, hasNext, cursor) ==
    [totalCount |-> Len(raws),
     pageInfo |-> [hasNextPage |-> hasNext, endCursor |-> cursor],
     edges |-> Edges(q, raws)]

Body(q, conn) == [data |-> (q.collection :> conn)]

\* Well-formed pages that announce a next page, and those that do not.
MorePages(q, pool, cursors) ==
    {[status |-> 200, body |-> Body(q, Connection(q, raws, TRUE, Some(c)))] :
        raws \in pool, c \in cursors}

LastPages(q, pool) ==
    {[status |-> 200, body |-> Body(q, Connection(q, raws, FALSE, None))] :
        raws \in pool}

\* Responses with a non-success status.
BadStatus(q) == {[status |-> s, body |-> None] : s \in {202, 500}}

\* Status 200, but a field get_nodes reads is absent from the document.
BadShape(q, pool, cursors) ==
    LET conns == {Connection(q, raws, h, IF h THEN Some(c) ELSE None) :
                     raws \in pool, h \in BOOLEAN, c \in cursors}
        noNumber(conn) ==
            [conn EXCEPT !.edges[Len(conn.edges)].node = Drop(@, "number")]
    IN  {[status |-> 200, body |-> b] : b \in
            {[errors |-> "Bad credentials"]}
            \cup {[data |-> ("repository" :> None)]}
            \cup {Body(q, Drop(conn, "edges")) : conn \in conns}
            \cup {Body(q, Drop(conn, "pageInfo")) : conn \in conns}
            \cup {Body(q, noNumber(conn)) : conn \in {x \in conns : Len(x.edges) > 0}}
            \cup {Body(q, [conn EXCEPT !.pageInfo = Drop(@, "hasNextPage")]) :
                     conn \in conns}
            \cup {Body(q, [conn EXCEPT !.pageInfo = Drop(@, "endCursor")]) :
                     conn \in {x \in conns : x.pageInfo.hasNextPage}}}

\* What the transport may answer to document q.  `final` makes the server
\* finite: its last page announces no next page.  `failing` lets it fail.
Responses(q, pool, cursors, final, failing) ==
    (IF final THEN {} ELSE MorePages(q, pool, cursors))
    \cup LastPages(q, pool)
    \cup (IF failing THEN BadStatus(q) \cup BadShape(q, pool, cursors) ELSE {})

---------------------------------------------------------------------------
(* Transport wrappers *)

\* urlopen itself raises HTTPError for an error status; the wrapper raises
\* for every other status that is not 200.
run_query(resp) ==
    IF resp.status = 200 THEN [raised |-> "", result |-> resp.body]
    ELSE IF resp.status >= 400 THEN [raised |-> "HTTPError", result |-> None]
    ELSE [raised |-> "Exception", result |-> None]

run_query_ui(resp) ==
    IF resp.status = 200 THEN [raised |-> "", result |-> resp.body]
    ELSE [raised |-> "Exception", result |-> None]

---------------------------------------------------------------------------
(* Paginator and Result Cache *)

\* Mutant: the first occurrence of a number is kept (dict.setdefault).
StoreNode_KeepFirst(an, node) ==
    IF HasKey(an, node.number) THEN an ELSE Put(an, node.number, node)

\* all_nodes[node["number"]] = node
StoreNode(an, node) == Put(an, node.number, node)

\* for e in edges: ...; a node without "number" raises KeyError, the nodes
\* before it are already stored.
RECURSIVE MergeEdges(_, _)
MergeEdges(an, edges) ==
    IF edges = <<>> THEN [all_nodes |-> an, raised |-> FALSE]
    ELSE LET node == Head(edges).node
         IN  IF ~HasKey(node, "number")
             THEN [all_nodes |-> an, raised |-> TRUE]
             ELSE MergeEdges(StoreNode(an, node), Tail(edges))

\* Mutant: the KeyError is swallowed and the loop left (except KeyError: break).
OnKeyError_Break(an) ==
    [all_nodes |-> an, raised |-> FALSE, brk |-> TRUE, endCursor |-> None]

\* A KeyError in the loop body leaves get_nodes by an exception (in
\* graal_report the except clause turns it into SystemExit).
OnKeyError(an) ==
    [all_nodes |-> an, raised |-> TRUE, brk |-> FALSE, endCursor |-> None]

\* One pass of the body of `while True` after run_query returned `result`:
\* raised (a KeyError), brk (the loop is left) or the next endCursor.
LoopBody(an, result, nt) ==
    LET coll == nt \o "s"
        fail(a) == OnKeyError(a)
    IN  IF ~HasKey(result, "data") \/ ~HasKey(result.data, coll) THEN fail(an)
        ELSE LET conn == result.data[coll]
             IN  IF ~HasKey(conn, "edges") THEN fail(an)
                 ELSE LET m == MergeEdges(an, conn.edges)
                      IN  IF m.raised THEN fail(m.all_nodes)
                          ELSE IF ~HasKey(conn, "pageInfo") THEN fail(m.all_nodes)
                          ELSE IF ~HasKey(conn.pageInfo, "hasNextPage")
                               THEN fail(m.all_nodes)
                          ELSE IF conn.pageInfo.hasNextPage # TRUE
                               THEN [all_nodes |-> m.all_nodes, raised |-> FALSE,
                                     brk |-> TRUE, endCursor |-> None]
                          ELSE IF ~HasKey(conn.pageInfo, "endCursor")
                               THEN fail(m.all_nodes)
                          ELSE [all_nodes |-> m.all_nodes, raised |-> FALSE,
                                brk |-> FALSE,
                                endCursor |-> conn.pageInfo.endCursor]

\* Mutant: the key is the node kind alone.
CacheKey_KindOnly(nt, ni) == nt

\* key = node_type + node_info
CacheKey(nt, ni) == nt \o ni

\* Mutant: the membership test looks the node kind up, as the return does.
CacheHit_ByKind(cache, nt, ni) == nt \in DOMAIN cache

\* if key in _cached_results
CacheHit(cache, nt, ni) == CacheKey(nt, ni) \in DOMAIN cache

\* return _cached_results[node_type]
CacheLookup(cache, nt, ni) ==
    IF HasKey(cache, nt) THEN [raised |-> "", value |-> cache[nt]]
    ELSE [raised |-> "KeyError", value |-> None]

\* _cached_results[key] = all_nodes
CacheStore(cache, nt, ni, an) == Put(cache, CacheKey(nt, ni), an)

\* How a call ended: "return" with its value, or the exception raised.
Ended(outcome, value) == [outcome |-> outcome, value |-> value]

Pair(nt, ni) == <<nt, ni>>

Count(f, k) == IF k \in DOMAIN f THEN f[k] ELSE 0


\* graal_report.get_nodes up to its first transport call.
GetNodesBegin(nt, ni, st) ==
    /\ pc = "idle"
    /\ prog' = "graal_report"
    /\ node_type' = nt /\ node_info' = ni /\ states' = st
    /\ queries' = <<>> /\ pages' = <<>>
    /\ cacheBefore' = _cached_results /\ storedBefore' = stored
    /\ all_nodes' = <<>> /\ endCursor' = None
    /\ calls' = calls + 1
    /\ UNCHANGED <<_cached_results, stored, failed>>
    /\ IF CacheHit(_cached_results, nt, ni)
       THEN LET r == CacheLookup(_cached_results, nt, ni)
            IN  /\ pc' = "idle"
                /\ last' = Ended(IF r.raised = "" THEN "return" ELSE r.raised,
                                 r.value)
                /\ UNCHANGED fetched
       ELSE /\ pc' = "loop"
            /\ last' = None
            /\ fetched' = Put(fetched, Pair(nt, ni),
                              Count(fetched, Pair(nt, ni)) + 1)

\* One iteration of graal_report.get_nodes' loop, and the return after it.
GetNodesPage(pool, cursors, failing) ==
    /\ pc = "loop" /\ prog = "graal_report"
    /\ Len(queries) < MaxPages
    /\ LET q == get_open_nodes_query(node_type, node_info, states, endCursor)
       IN  \E resp \in Responses(q, pool, cursors, Len(queries) + 1 = MaxPages,
                                 failing) :
             LET r == run_query(resp)
                 b == LoopBody(all_nodes, r.result, node_type)
             IN  /\ queries' = Append(queries, q)
                 /\ pages' = Append(pages, resp)
                 /\ UNCHANGED <<prog, node_type, node_info, states, cacheBefore,
                                storedBefore, calls, fetched>>
                 /\ failed' = (failed \/ r.raised # "" \/ b.raised)
                 /\ IF r.raised # ""
                    THEN /\ pc' = "idle"
                         /\ last' = Ended(r.raised, None)
                         /\ UNCHANGED <<all_nodes, endCursor, _cached_results,
                                        stored>>
                    ELSE IF b.raised
                    THEN /\ pc' = "idle"
                         /\ all_nodes' = b.all_nodes
                         /\ last' = Ended("SystemExit", None)
                         /\ UNCHANGED <<endCursor, _cached_results, stored>>
                    ELSE IF b.brk
                    THEN /\ pc' = "idle"
                         /\ all_nodes' = b.all_nodes
                         /\ _cached_results' =
                               CacheStore(_cached_results, node_type, node_info,
                                          b.all_nodes)
                         /\ last' = Ended("return", b.all_nodes)
                         /\ stored' = Put(stored, Pair(node_type, node_info),
                                          b.all_nodes)
                         /\ UNCHANGED endCursor
                    ELSE /\ all_nodes' = b.all_nodes
                         /\ endCursor' = b.endCursor
                         /\ UNCHANGED <<pc, last, _cached_results, stored>>

\* unassigned_issues.get_nodes up to its first transport call.
GetNodesBeginUI(nt) ==
    /\ pc = "idle"
    /\ prog' = "unassigned_issues"
    /\ node_type' = nt /\ node_info' = UINodeInfo /\ states' = "OPEN"
    /\ queries' = <<>> /\ pages' = <<>>
    /\ cacheBefore' = _cached_results /\ storedBefore' = stored
    /\ all_nodes' = <<>> /\ endCursor' = None
    /\ pc' = "loop"
    /\ last' = None
    /\ calls' = calls + 1
    /\ fetched' = Put(fetched, Pair(nt, UINodeInfo),
                      Count(fetched, Pair(nt, UINodeInfo)) + 1)
    /\ UNCHANGED <<_cached_results, stored, failed>>

\* One iteration of unassigned_issues.get_nodes' loop, and the return.
GetNodesPageUI(pool, cursors, failing) ==
    /\ pc = "loop" /\ prog = "unassigned_issues"
    /\ Len(queries) < MaxPages
    /\ LET q == get_open_nodes_query_ui(node_type, endCursor)
       IN  \E resp \in Responses(q, pool, cursors, Len(queries) + 1 = MaxPages,
                                 failing) :
             LET r == run_query_ui(resp)
                 b == LoopBody(all_nodes, r.result, node_type)
             IN  /\ queries' = Append(queries, q)
                 /\ pages' = Append(pages, resp)
                 /\ UNCHANGED <<prog, node_type, node_info, states, cacheBefore,
                                storedBefore, _cached_results, calls, fetched>>
                 /\ failed' = (failed \/ r.raised # "" \/ b.raised)
                 /\ IF r.raised # ""
                    THEN /\ pc' = "idle"
                         /\ last' = Ended(r.raised, None)
                         /\ UNCHANGED <<all_nodes, endCursor, stored>>
                    ELSE IF b.raised
                    THEN /\ pc' = "idle"
                         /\ all_nodes' = b.all_nodes
                         /\ last' = Ended("KeyError", None)
                         /\ UNCHANGED <<endCursor, stored>>
                    ELSE IF b.brk
                    THEN /\ pc' = "idle"
                         /\ all_nodes' = b.all_nodes
                         /\ last' = Ended("return", b.all_nodes)
                         /\ stored' = Put(stored, Pair(node_type, node_info),
                                          b.all_nodes)
                         /\ UNCHANGED endCursor
                    ELSE /\ all_nodes' = b.all_nodes
                         /\ endCursor' = b.endCursor
                         /\ UNCHANGED <<pc, last, stored>>

---------------------------------------------------------------------------
(* Specifications of the fetch *)

\* Item lists the server may put on one page.
PoolSmall == {<<>>, <<[number |-> 1, v |-> "a"]>>}

PoolRich ==
    {<<>>,
     <<[number |-> 1, v |-> "a"]>>,
     <<[number |-> 1, v |-> "b"], [number |-> 2, v |-> "a"]>>,
     <<[number |-> 2, v |-> "b"], [number |-> 2, v |-> "a"]>>}

FetchInit ==
    /\ prog = "graal_report" /\ pc = "idle"
    /\ _cached_results = <<>>
    /\ node_type = "" /\ node_info = "" /\ states = ""
    /\ all_nodes = <<>> /\ endCursor = None
    /\ queries = <<>> /\ pages = <<>>
    /\ cacheBefore = <<>> /\ storedBefore = <<>>
    /\ last = None /\ calls = 0
    /\ fetched = <<>> /\ stored = <<>> /\ failed = FALSE

ScriptOff == script = "off" /\ report = 0 /\ stdout = <<>>

ReportOff == nodes = <<>> /\ now = 0 /\ out = None

\* Spec: any sequence of up to MaxCalls calls of graal_report.get_nodes.
Init == FetchInit /\ ScriptOff /\ ReportOff

Call ==
    /\ calls < MaxCalls
    /\ \E nt \in NodeTypes, ni \in NodeInfos, st \in StatesArgs :
          GetNodesBegin(nt, ni, st)
    /\ UNCHANGED <<scriptVars, reportVars>>

Page ==
    /\ GetNodesPage(PoolSmall, {"Y3Vyc29yOjEwMA=="}, TRUE)
    /\ UNCHANGED <<scriptVars, reportVars>>

Next == Call \/ Page

Spec == Init /\ [][Next]_vars

\* SpecPages: one call of get_nodes of either script, against every page
\* sequence of up to MaxPages pages.
CallOnce ==
    /\ calls = 0
    /\ \E nt \in NodeTypes, ni \in NodeInfos : GetNodesBegin(nt, ni, "OPEN")
    /\ UNCHANGED <<scriptVars, reportVars>>

CallOnceUI ==
    /\ calls = 0
    /\ \E nt \in NodeTypes : GetNodesBeginUI(nt)
    /\ UNCHANGED <<scriptVars, reportVars>>

PageRich ==
    /\ GetNodesPage(PoolRich, CursorTokens, TRUE)
    /\ UNCHANGED <<scriptVars, reportVars>>

PageRichUI ==
    /\ GetNodesPageUI(PoolRich, CursorTokens, TRUE)
    /\ UNCHANGED <<scriptVars, reportVars>>

NextPages == CallOnce \/ CallOnceUI \/ PageRich \/ PageRichUI

SpecPages == Init /\ [][NextPages]_vars

---------------------------------------------------------------------------
(* Reports *)

Max(S) == CHOOSE x \in S : \A y \in S : y <= x

\* Mutant: ascending order, as unassigned_issues.py iterates.
RECURSIVE sorted_reverse_Ascending(_)
sorted_reverse_Ascending(S) ==
    IF S = {} THEN <<>>
    ELSE LET m == CHOOSE x \in S : \A y \in S : x <= y
         IN  <<m>> \o sorted_reverse_Ascending(S \ {m})

\* The keys of sorted(nodes.items(), reverse=True): keys are distinct, so
\* the pairs are ordered by key alone.
RECURSIVE sorted_reverse(_)
sorted_reverse(S) ==
    IF S = {} THEN <<>> ELSE <<Max(S)>> \o sorted_reverse(S \ {Max(S)})

\* datetime.fromisoformat of the text without its trailing "Z": a naive
\* datetime, here the number of instants since the start of 1970.
parse_datetime(s) == ((s.year - 1970) * 365 + s.day) * TicksPerDay + s.tick

\* datetime.year
YearOf(dt) == 1970 + dt \div (365 * TicksPerDay)

\* timedelta.days of (a - b): whole days, rounded down.
DeltaDays(a, b) == (a - b) \div TicksPerDay

RECURSIVE UnassignedLoop(_, _, _, _)
UnassignedLoop(ns, order, lines, total) ==
    IF order = <<>> THEN [lines |-> lines, total |-> total]
    ELSE LET node == ns[Head(order)]
             num_assignees == node.assignees.totalCount
         IN  IF num_assignees = 0
             THEN UnassignedLoop(ns, Tail(order),
                      Append(lines, [url |-> node.url, title |-> node.title]),
                      total + 1)
             ELSE UnassignedLoop(ns, Tail(order), lines, total)

\* graal_report.show_unassigned_nodes after its get_nodes call: the lines
\* printed and the total printed after them.
show_unassigned_nodes(ns) ==
    UnassignedLoop(ns, sorted_reverse(DOMAIN ns), <<>>, 0)

\* Mutant: the first authorized comment is kept, whatever comes later.
NewerComment_KeepFirst(updated_at, previous_updated_at) == FALSE

\* if updated_at > previous_updated_at
NewerComment(updated_at, previous_updated_at) == updated_at > previous_updated_at

\* The scan of one node's timeline: None, or <<url, updated_at>> of the
\* retained comment.
RECURSIVE TimelineLoop(_, _)
TimelineLoop(edges, last_oracle_comment) ==
    IF edges = <<>> THEN last_oracle_comment
    ELSE LET item == Head(edges).node
             rest == Tail(edges)
         IN  IF item = None THEN TimelineLoop(rest, last_oracle_comment)
             ELSE IF item.author = None \/ item.author.organization = None
             THEN TimelineLoop(rest, last_oracle_comment)
             ELSE IF last_oracle_comment = None
             THEN TimelineLoop(rest, <<item.url, parse_datetime(item.updatedAt)>>)
             ELSE IF NewerComment(parse_datetime(item.updatedAt),
                                  last_oracle_comment[2])
             THEN TimelineLoop(rest, <<item.url, parse_datetime(item.updatedAt)>>)
             ELSE TimelineLoop(rest, last_oracle_comment)

\* Mutant: 30 whole days already count as stale.
IsStale_AtThirty(days) == days >= 30

\* if delta.days > 30
IsStale(days) == days > 30

RECURSIVE StaleLoop(_, _, _, _)
StaleLoop(ns, order, current, lines) ==
    IF order = <<>> THEN lines
    ELSE LET node == ns[Head(order)]
             last_oracle_comment == TimelineLoop(node.timelineItems.edges, None)
         IN  IF last_oracle_comment = None
             THEN StaleLoop(ns, Tail(order), current,
                      Append(lines, [url |-> node.url, title |-> node.title,
                                     detail |-> <<"no Oracle comments">>]))
             ELSE LET days == DeltaDays(current, last_oracle_comment[2])
                  IN  IF IsStale(days)
                      THEN StaleLoop(ns, Tail(order), current,
                               Append(lines,
                                  [url |-> node.url, title |-> node.title,
                                   detail |-> <<days, last_oracle_comment[1]>>]))
                      ELSE StaleLoop(ns, Tail(order), current, lines)

\* graal_report.show_no_recent_activity_nodes after its get_nodes call;
\* `current` is datetime.datetime.now().
show_no_recent_activity_nodes(ns, current) ==
    StaleLoop(ns, sorted_reverse(DOMAIN ns), current, <<>>)

\* if author
HasAuthor(node) == node.author # None

\* Mutant: only the first organization of the author is looked at.
Affiliation_FirstOrg(author) ==
    IF author.organizations.edges # <<>>
       /\ author.organizations.edges[1].node.login = "oracle"
    THEN "oracle" ELSE "other"

\* key = "oracle" if "oracle" in orgs else "other"
Affiliation(author) ==
    LET orgs == {author.organizations.edges[i].node.login :
                    i \in 1..Len(author.organizations.edges)}
    IN  IF "oracle" \in orgs THEN "oracle" ELSE "other"

RECURSIVE YearLoop(_, _, _)
YearLoop(ns, todo, opened_per_year) ==
    IF todo = {} THEN opened_per_year
    ELSE LET n == CHOOSE x \in todo : TRUE
             node == ns[n]
         IN  IF HasAuthor(node)
             THEN LET year == YearOf(parse_datetime(node.createdAt))
                      opened == IF HasKey(opened_per_year, year)
                                THEN opened_per_year[year] ELSE <<>>
                      key == Affiliation(node.author)
                      count == IF HasKey(opened, key) THEN opened[key] ELSE 0
                  IN  YearLoop(ns, todo \ {n},
                          Put(opened_per_year, year, Put(opened, key, count + 1)))
             ELSE YearLoop(ns, todo \ {n}, opened_per_year)

\* graal_report.show_nodes_opened_per_year after its get_nodes call: the
\* counters it prints.
show_nodes_opened_per_year(ns) == YearLoop(ns, DOMAIN ns, <<>>)

---------------------------------------------------------------------------
(* Specifications of the reports: the NodeSet is drawn from a bounded set  *)
(* and the report is applied to it.                                        *)

Numbers == 1..MaxNumber

Seqs(S, n) == UNION {[1..k -> S] : k \in 0..n}

AssigneeNode(n, count) ==
    [number |-> n, url |-> NodeUrl(n), title |-> "title",
     assignees |-> [totalCount |-> count],
     timelineItems |-> [edges |-> <<>>]]

\* Timeline entries: an item that is no comment (an empty object), comments
\* by a deleted account, by a user outside the organization, and by members.
ItemKinds == {"event", "deleted", "outsider", "fresh", "edge", "old"}

TimelineItem(kind, i) ==
    LET comment(author, at) ==
            [updatedAt |-> at, url |-> <<"comment", i>>, author |-> author]
        member == [login |-> "dev", organization |-> [login |-> "oracle"]]
    IN  CASE kind = "event"    -> None
          [] kind = "deleted"  -> comment(None, Iso(2022, 39, 0))
          [] kind = "outsider" ->
                comment([login |-> "guest", organization |-> None],
                        Iso(2022, 39, 0))
          [] kind = "fresh"    -> comment(member, Iso(2022, 35, 0))
          [] kind = "edge"     -> comment(member, Iso(2022, 9, 1))
          [] kind = "old"      -> comment(member, Iso(2021, 360, 0))

TimelineNode(n, kinds) ==
    [number |-> n, url |-> NodeUrl(n), title |-> "title",
     assignees |-> [totalCount |-> 0],
     timelineItems |->
        [edges |-> [i \in 1..Len(kinds) |-> [node |-> TimelineItem(kinds[i], i)]]]]

Authors ==
    LET user(logins) ==
            [login |-> "dev",
             organizations |->
                [edges |-> [i \in 1..Len(logins) |-> [node |-> [login |-> logins[i]]]]]]
    IN  {None, user(<<>>), user(<<"oracle">>), user(<<"graalvm", "oracle">>),
         user(<<"github">>)}

AuthorNode(n, a) ==
    [number |-> n, author |-> a[1], createdAt |-> a[2], closedAt |-> None]

UnassignedInit ==
    /\ \E D \in SUBSET Numbers : \E f \in [D -> {0, 1, 2}] :
          nodes = [n \in D |-> AssigneeNode(n, f[n])]
    /\ now = 0 /\ out = None

ShowUnassigned ==
    /\ out = None
    /\ out' = [printed |-> show_unassigned_nodes(nodes)]
    /\ UNCHANGED <<nodes, now, fetchVars, scriptVars>>

InitUnassigned == FetchInit /\ ScriptOff /\ UnassignedInit

SpecUnassigned == InitUnassigned /\ [][ShowUnassigned]_vars

StaleInit ==
    /\ \E D \in SUBSET {7, 12} : \E f \in [D -> Seqs(ItemKinds, MaxTimeline)] :
          nodes = [n \in D |-> TimelineNode(n, f[n])]
    /\ now \in {parse_datetime(Iso(2022, 40, 0)), parse_datetime(Iso(2022, 40, 1))}
    /\ out = None

ShowNoRecentActivity ==
    /\ out = None
    /\ out' = [printed |-> show_no_recent_activity_nodes(nodes, now)]
    /\ UNCHANGED <<nodes, now, fetchVars, scriptVars>>

InitStale == FetchInit /\ ScriptOff /\ StaleInit

SpecStale == InitStale /\ [][ShowNoRecentActivity]_vars

YearlyInit ==
    /\ \E D \in SUBSET Numbers :
          \E f \in [D -> Authors \X {Iso(2021, 364, 1), Iso(2022, 0, 0)}] :
             nodes = [n \in D |-> AuthorNode(n, f[n])]
    /\ now = 0 /\ out = None

ShowOpenedPerYear ==
    /\ out = None
    /\ out' = [printed |-> show_nodes_opened_per_year(nodes)]
    /\ UNCHANGED <<nodes, now, fetchVars, scriptVars>>

InitYearly == FetchInit /\ ScriptOff /\ YearlyInit

SpecYearly == InitYearly /\ [][ShowOpenedPerYear]_vars

---------------------------------------------------------------------------
(* The scripted run of graal_report.py *)

\* The six report calls at the end of the module, in order.
ScriptReports ==
    <<[fn |-> "show_no_recent_activity_nodes", node_type |-> "issue"],
      [fn |-> "show_no_recent_activity_nodes", node_type |-> "pullRequest"],
      [fn |-> "show_unassigned_nodes", node_type |-> "pullRequest"],
      [fn |-> "show_unassigned_nodes", node_type |-> "issue"],
      [fn |-> "show_nodes_opened_per_year", node_type |-> "issue"],
      [fn |-> "show_nodes_opened_per_year", node_type |-> "pullRequest"]>>

\* The get_nodes arguments of a report function.
ReportNodeInfo(r) ==
    IF r.fn = "show_nodes_opened_per_year" THEN _node_info2 ELSE _node_info1

ReportStates(r) ==
    IF r.fn = "show_nodes_opened_per_year"
    THEN (IF r.node_type = "pullRequest" THEN "[OPEN,CLOSED,MERGED]"
          ELSE "[OPEN,CLOSED]")
    ELSE "OPEN"

\* What a report function prints once get_nodes has returned `ns`.
Section(r, ns, current) ==
    [fn |-> r.fn, node_type |-> r.node_type,
     printed |->
        CASE r.fn = "show_no_recent_activity_nodes" ->
                show_no_recent_activity_nodes(ns, current)
          [] r.fn = "show_unassigned_nodes" -> show_unassigned_nodes(ns)
          [] r.fn = "show_nodes_opened_per_year" -> show_nodes_opened_per_year(ns)]

\* The rest of the current report function once its get_nodes call has
\* ended: it prints its section and the next report begins, or the exception
\* ends the process.
ReportContinues ==
    IF pc' = "loop" THEN UNCHANGED scriptVars
    ELSE IF last'.outcome = "return"
    THEN /\ stdout' = Append(stdout, Section(ScriptReports[report], last'.value, now))
         /\ report' = report + 1
         /\ script' = IF report = Len(ScriptReports) THEN "finished" ELSE "running"
    ELSE /\ script' = "crashed"
         /\ UNCHANGED <<report, stdout>>

ScriptCall ==
    /\ script = "running" /\ pc = "idle"
    /\ LET r == ScriptReports[report]
       IN  GetNodesBegin(r.node_type, ReportNodeInfo(r), ReportStates(r))
    /\ ReportContinues
    /\ UNCHANGED reportVars

\* The transport of the scripted run always succeeds.
ScriptPage ==
    /\ script = "running"
    /\ GetNodesPage(PoolRich, {"Y3Vyc29yOjEwMA=="}, FALSE)
    /\ ReportContinues
    /\ UNCHANGED reportVars

InitScript ==
    /\ FetchInit
    /\ script = "running" /\ report = 1 /\ stdout = <<>>
    /\ nodes = <<>> /\ now = parse_datetime(Iso(2022, 40, 0)) /\ out = None

NextScript == ScriptCall \/ ScriptPage

SpecScript == InitScript /\ [][NextScript]_vars

---------------------------------------------------------------------------
(* Properties of the fetch *)

\* A response is a success when its status is 200 and the document holds
\* every field get_nodes reads from it.
WellFormed(body, coll) ==
    /\ "data" \in DOMAIN body
    /\ coll \in DOMAIN body.data
    /\ LET c == body.data[coll]
       IN  /\ "edges" \in DOMAIN c
           /\ \A k \in 1..Len(c.edges) : "number" \in DOMAIN c.edges[k].node
           /\ "pageInfo" \in DOMAIN c
           /\ "hasNextPage" \in DOMAIN c.pageInfo
           /\ c.pageInfo.hasNextPage = TRUE => "endCursor" \in DOMAIN c.pageInfo

Success(i) == pages[i].status = 200 /\ WellFormed(pages[i].body, queries[i].collection)

PageConn(i) == pages[i].body.data[queries[i].collection]

Returned == calls > 0 /\ pc = "idle" /\ last # None /\ last.outcome = "return"

\* Every (page, position) at which this call received a node.
Occurrences ==
    UNION {{<<i, j>> : j \in 1..Len(PageConn(i).edges)} : i \in 1..Len(pages)}

NodeAt(o) == PageConn(o[1]).edges[o[2]].node

Later(a, b) == a[1] > b[1] \/ (a[1] = b[1] /\ a[2] > b[2])

\* C1: a get_nodes call for a pair whose earlier fetch completed returns the
\* NodeSet that fetch stored, without any transport call, whatever `states`.
C1_HitReturnsStored ==
    (calls > 0 /\ Pair(node_type, node_info) \in DOMAIN storedBefore) =>
        /\ pc = "idle"
        /\ queries = <<>>
        /\ last = Ended("return", storedBefore[Pair(node_type, node_info)])

\* C2: a fetch over successful pages returns the mapping whose keys are the
\* numbers occurring in any page and whose value for a number is its last
\* occurrence; without duplicates its size is the total node count, and a
\* single empty page gives the empty NodeSet.
C2_LaterPageWins ==
    (Returned /\ queries # <<>>) =>
        /\ DOMAIN last.value = {NodeAt(o).number : o \in Occurrences}
        /\ \A o \in Occurrences :
             (\A x \in Occurrences :
                 NodeAt(x).number = NodeAt(o).number => ~Later(x, o))
             => last.value[NodeAt(o).number] = NodeAt(o)
        /\ (\A x, y \in Occurrences : NodeAt(x).number = NodeAt(y).number => x = y)
             => Cardinality(DOMAIN last.value) = Cardinality(Occurrences)
        /\ (Len(pages) = 1 /\ PageConn(1).edges = <<>>) => last.value = <<>>

C2_Witness ==
    /\ Returned /\ Len(pages) = 3
    /\ \E x, y \in Occurrences :
          /\ x[1] < y[1]
          /\ NodeAt(x).number = NodeAt(y).number
          /\ NodeAt(x) # NodeAt(y)
          /\ last.value[NodeAt(y).number] = NodeAt(y)

\* C3: when the transport answers a page, first or later, with a failure,
\* get_nodes returns nothing, makes no further transport call and leaves
\* the cache as it was, without an entry for the requested key.
C3_FailFast ==
    \A i \in 1..Len(pages) :
        ~Success(i) =>
            /\ i = Len(pages)
            /\ pc = "idle"
            /\ last # None /\ last.outcome # "return" /\ last.value = None
            /\ _cached_results = cacheBefore
            /\ CacheKey(node_type, node_info) \notin DOMAIN _cached_results

C3_Witness ==
    /\ Len(pages) >= 2 /\ ~Success(Len(pages))
    /\ all_nodes # <<>> /\ cacheBefore # <<>>
    /\ last.outcome = "SystemExit" /\ _cached_results = cacheBefore

\* C4: while the transport succeeds, at most one fetch sequence is run per
\* (node kind, field selection) pair; a second call for a pair whose fetch
\* completed leaves the count at one.
C4_OneFetchPerPair ==
    ~failed =>
        /\ \A p \in DOMAIN fetched : fetched[p] <= 1
        /\ Pair(node_type, node_info) \in DOMAIN storedBefore =>
              fetched[Pair(node_type, node_info)] = 1

C4_Witness ==
    /\ ~failed /\ calls = 2 /\ pc = "idle"
    /\ Pair(node_type, node_info) \in DOMAIN storedBefore
    /\ fetched[Pair(node_type, node_info)] = 1

\* C5: a call for (K, F2) after a completed fetch for (K, F1), F1 # F2, is a
\* miss: it runs its own fetch with F2, returns the nodes of that fetch and
\* stores them under its own key, leaving the entry for (K, F1) as it was.
C5_KeyCombinesKindAndFields ==
    \A f1 \in NodeInfos :
        ( /\ calls > 0 /\ f1 # node_info
          /\ Pair(node_type, f1) \in DOMAIN storedBefore
          /\ Pair(node_type, node_info) \notin DOMAIN storedBefore ) =>
            /\ pc = "loop" \/ queries # <<>>
            /\ \A i \in 1..Len(queries) : queries[i].node = node_info
            /\ Returned =>
                 /\ DOMAIN last.value = {NodeAt(o).number : o \in Occurrences}
                 /\ \A n \in DOMAIN last.value :
                       \E o \in Occurrences : last.value[n] = NodeAt(o)
                 /\ _cached_results[CacheKey(node_type, node_info)] = last.value
                 /\ _cached_results[CacheKey(node_type, f1)]
                       = storedBefore[Pair(node_type, f1)]
                 /\ DOMAIN _cached_results
                       = DOMAIN cacheBefore \cup {CacheKey(node_type, node_info)}

C5_Witness ==
    /\ Returned /\ last.value # <<>>
    /\ \E f1 \in NodeInfos :
          /\ f1 # node_info
          /\ Pair(node_type, f1) \in DOMAIN storedBefore
          /\ storedBefore[Pair(node_type, f1)] # <<>>
          /\ Pair(node_type, node_info) \notin DOMAIN storedBefore

\* C9: the first query carries no cursor, every later query carries the
\* endCursor of the page before it, and the loop stops right after the first
\* page whose hasNextPage is not true.
C9_CursorChain ==
    calls > 0 =>
        /\ Len(queries) >= 1 => RequestedAfter(queries[1]) = None
        /\ \A i \in 2..Len(queries) :
              /\ Success(i - 1)
              /\ PageConn(i - 1).pageInfo.hasNextPage = TRUE
              /\ RequestedAfter(queries[i]) = PageConn(i - 1).pageInfo.endCursor
        /\ (pc = "loop" /\ pages # <<>>) =>
              /\ Success(Len(pages))
              /\ PageConn(Len(pages)).pageInfo.hasNextPage = TRUE

---------------------------------------------------------------------------
(* Properties of the reports *)

Printed == out # None

\* The node a printed line is about.
NumberOf(line) == CHOOSE n \in DOMAIN nodes : nodes[n].url = line.url

Descending(lines) ==
    \A i, j \in 1..Len(lines) : i < j => NumberOf(lines[i]) > NumberOf(lines[j])

\* The timeline entries of node n that are comments by a member of the
\* organization.
Qualifying(n) ==
    {i \in 1..Len(nodes[n].timelineItems.edges) :
        LET item == nodes[n].timelineItems.edges[i].node
        IN  /\ item # None
            /\ item.author # None
            /\ item.author.organization # None}

UpdatedAt(n, i) == parse_datetime(nodes[n].timelineItems.edges[i].node.updatedAt)

\* d is the number of whole days from instant t to instant `now`.
WholeDays(t, d) == d * TicksPerDay <= now - t /\ now - t < (d + 1) * TicksPerDay

\* C6: the staleness report lists nodes in descending number order; a node
\* without a comment by a member is listed as such; a node with one is listed
\* exactly when its latest such comment is more than 30 whole days old, with
\* that day count and the URL of a comment carrying the latest timestamp.
C6_Staleness ==
    Printed =>
        LET lines == out.printed
        IN  /\ Descending(lines)
            /\ \A i \in 1..Len(lines) :
                  \E n \in DOMAIN nodes :
                      lines[i].url = nodes[n].url /\ lines[i].title = nodes[n].title
            /\ \A n \in DOMAIN nodes :
                  LET listed == {i \in 1..Len(lines) : lines[i].url = nodes[n].url}
                      Q == Qualifying(n)
                  IN  IF Q = {}
                      THEN \E i \in listed :
                              lines[i].detail = <<"no Oracle comments">>
                      ELSE LET latest == Max({UpdatedAt(n, i) : i \in Q})
                           IN  /\ listed # {} <=> now - latest >= 31 * TicksPerDay
                               /\ \A i \in listed :
                                     /\ Len(lines[i].detail) = 2
                                     /\ WholeDays(latest, lines[i].detail[1])
                                     /\ \E k \in Q :
                                           /\ UpdatedAt(n, k) = latest
                                           /\ nodes[n].timelineItems.edges[k].node.url
                                                 = lines[i].detail[2]

C6_Witness ==
    /\ Printed /\ Len(out.printed) = 1
    /\ Cardinality(DOMAIN nodes) = 2
    /\ \A n \in DOMAIN nodes : Cardinality(Qualifying(n)) = 2
    /\ out.printed[1].detail[1] = 31

\* C7: the unassigned report prints exactly the nodes whose assigneeCount is
\* 0, each once, in descending number order, and the total is their count;
\* an empty NodeSet gives no line and a total of zero.
C7_Unassigned ==
    Printed =>
        LET lines == out.printed.lines
            unassigned == {n \in DOMAIN nodes : nodes[n].assignees.totalCount = 0}
        IN  /\ Descending(lines)
            /\ \A i \in 1..Len(lines) :
                  /\ NumberOf(lines[i]) \in unassigned
                  /\ lines[i] = [url |-> nodes[NumberOf(lines[i])].url,
                                 title |-> nodes[NumberOf(lines[i])].title]
            /\ \A n \in unassigned : \E i \in 1..Len(lines) : lines[i].url = nodes[n].url
            /\ Len(lines) = Cardinality(unassigned)
            /\ out.printed.total = Len(lines)
            /\ nodes = <<>> => (lines = <<>> /\ out.printed.total = 0)

C7_Witness ==
    /\ Printed /\ out.printed.total = 2
    /\ Cardinality(DOMAIN nodes) = 3

\* C8: the counter at (year, label) is the number of nodes with an author,
\* created in that year, whose author is (label "oracle") or is not (label
\* "other") a member of the organization; nodes without author count nowhere
\* and no counter is zero.
C8_OpenedPerYear ==
    Printed =>
        LET opened_per_year == out.printed
            member(n) ==
                \E i \in 1..Len(nodes[n].author.organizations.edges) :
                    nodes[n].author.organizations.edges[i].node.login = "oracle"
            counted(y, label) ==
                {n \in DOMAIN nodes :
                    /\ nodes[n].author # None
                    /\ nodes[n].createdAt.year = y
                    /\ (label = "oracle") = member(n)}
            years == {nodes[n].createdAt.year : n \in DOMAIN nodes}
        IN  /\ DOMAIN opened_per_year \subseteq years
            /\ \A y \in DOMAIN opened_per_year :
                  /\ opened_per_year[y] # <<>>
                  /\ DOMAIN opened_per_year[y] \subseteq {"oracle", "other"}
            /\ \A y \in years, label \in {"oracle", "other"} :
                  LET present == /\ y \in DOMAIN opened_per_year
                                 /\ label \in DOMAIN opened_per_year[y]
                  IN  /\ present <=> counted(y, label) # {}
                      /\ present =>
                            opened_per_year[y][label] = Cardinality(counted(y, label))

C8_Witness ==
    /\ Printed
    /\ \E n \in DOMAIN nodes : nodes[n].author = None
    /\ 2021 \in DOMAIN out.printed
    /\ "oracle" \in DOMAIN out.printed[2021]
    /\ out.printed[2021]["oracle"] = 2

---------------------------------------------------------------------------
(* Properties of the scripted run *)

\* C10: with a transport that always succeeds, the six reports run to
\* completion one after another in their order, and the run executes exactly
\* four fetch sequences, one per (node kind, field selection) pair.
C10_ScriptCompletes ==
    /\ script # "crashed"
    /\ script = "finished" =>
          /\ Len(stdout) = Len(ScriptReports)
          /\ \A i \in 1..Len(stdout) :
                /\ stdout[i].fn = ScriptReports[i].fn
                /\ stdout[i].node_type = ScriptReports[i].node_type
          /\ Cardinality(DOMAIN fetched) = 4
          /\ \A p \in DOMAIN fetched : fetched[p] = 1

====
